---- MODULE Spec2Model ----
(***************************************************************************)
(* Model of app/main.py of Throne_War_RTS: a FastAPI application that      *)
(* mounts five static directories, redirects "/" to the menu page and      *)
(* answers two JSON endpoints, all behind Starlette's CORSMiddleware.      *)
(*                                                                         *)
(* A URL path is the sequence of its "/"-separated segments after the      *)
(* leading slash: "/" is <<"">>, "/game" is <<"game">>, "/game/" is        *)
(* <<"game", "">>.  A filesystem path is the sequence of its components    *)
(* below the project directory (the parent of app/ and frontend/).         *)
(* Only GET requests are modelled; the filesystem holds no symbolic links. *)
(***************************************************************************)
EXTENDS Naturals, Sequences, FiniteSets, TLC

VARIABLES fs, app, routes, phase, req, resp, hops, first

vars == <<fs, app, routes, phase, req, resp, hops, first>>

-----------------------------------------------------------------------------
(* Bounds *)

\* longest residual path (segments after a route prefix) a client sends
MaxResidual == 3
\* redirects a client follows before giving up
MaxHops == 2
\* clients with a request in flight at the same time
MaxClients == 2

Clients == 1..MaxClients

-----------------------------------------------------------------------------
(* Sequences *)

IsPrefix(p, s) == Len(p) <= Len(s) /\ SubSeq(s, 1, Len(p)) = p

Last(s) == s[Len(s)]

RECURSIVE SeqsUpTo(_, _)
SeqsUpTo(S, n) ==
    IF n = 0 THEN {<<>>}
    ELSE LET shorter == SeqsUpTo(S, n - 1)
         IN  shorter \cup {Append(s, x) : s \in shorter, x \in S}

-----------------------------------------------------------------------------
(* The filesystem below the project directory *)

frontend_path == <<"frontend">>

\* directories and files that are there in every layout considered
FixedNodes ==
    [p \in {<<"app">>, <<"frontend">>} |-> "dir"] @@
    [p \in {<<"app", "main.py">>, <<"frontend", "x">>} |-> "file"]

\* nodes a layout may or may not have
OptionalDirs ==
    {<<"frontend", "game">>, <<"frontend", "menu">>, <<"frontend", "menu", "assets">>,
     <<"frontend", "menu", "css">>, <<"frontend", "menu", "js">>}

OptionalFiles ==
    {<<"frontend", "game", "index.html">>, <<"frontend", "game", "404.html">>,
     <<"frontend", "menu", "menu.html">>}

\* a subdirectory of the game that is there whenever the game directory is
DirsOf == {<<"frontend", "game", "sub">>}

\* files that exist whenever their directory does
FilesOf ==
    {<<"frontend", "game", "x">>,
     <<"frontend", "menu", "x">>, <<"frontend", "menu", "assets", "x">>,
     <<"frontend", "menu", "css", "x">>, <<"frontend", "menu", "css", "index.html">>,
     <<"frontend", "menu", "js", "x">>}

FilesOfDirsOf == {<<"frontend", "game", "sub", "index.html">>}

Nodes ==
    DOMAIN FixedNodes \cup OptionalDirs \cup OptionalFiles \cup DirsOf
        \cup FilesOf \cup FilesOfDirsOf

Parent(p) == SubSeq(p, 1, Len(p) - 1)

\* os.stat: "dir", "file" or "absent"
Stat(f, p) ==
    IF p = <<>> THEN "dir"
    ELSE IF p \in DOMAIN f THEN f[p] ELSE "absent"

WellFormed(f) ==
    /\ \A p \in DOMAIN FixedNodes : f[p] = FixedNodes[p]
    /\ \A p \in OptionalDirs : f[p] \in {"dir", "absent"}
    /\ \A p \in OptionalFiles : f[p] \in {"file", "absent"}
    /\ \A p \in DirsOf : f[p] = Stat(f, Parent(p))
    /\ \A p \in FilesOf \cup FilesOfDirsOf :
          f[p] = IF Stat(f, Parent(p)) = "dir" THEN "file" ELSE "absent"
    /\ \A p \in Nodes : f[p] # "absent" => Stat(f, Parent(p)) = "dir"

Layout(present) ==
    [p \in Nodes |->
        IF p \in DOMAIN FixedNodes THEN FixedNodes[p]
        ELSE IF p \in OptionalDirs THEN (IF p \in present THEN "dir" ELSE "absent")
        ELSE IF p \in OptionalFiles THEN (IF p \in present THEN "file" ELSE "absent")
        ELSE IF p \in DirsOf THEN (IF Parent(p) \in present THEN "dir" ELSE "absent")
        ELSE IF p \in FilesOf THEN (IF Parent(p) \in present THEN "file" ELSE "absent")
        ELSE IF Parent(Parent(p)) \in present THEN "file" ELSE "absent"]

Layouts ==
    {f \in {Layout(s) : s \in SUBSET (OptionalDirs \cup OptionalFiles)} : WellFormed(f)}

-----------------------------------------------------------------------------
(* The routes main.py declares, in the order it declares them *)

\* the mounts with the broad /menu registered ahead of the narrower ones
MountDeclsBroadFirst ==
    << [kind |-> "mount", path |-> <<"game">>, name |-> "game",
        directory |-> frontend_path \o <<"game">>, html |-> TRUE],
       [kind |-> "mount", path |-> <<"menu">>, name |-> "menu",
        directory |-> frontend_path \o <<"menu">>, html |-> TRUE],
       [kind |-> "mount", path |-> <<"menu", "assets">>, name |-> "menu_assets",
        directory |-> frontend_path \o <<"menu", "assets">>, html |-> FALSE],
       [kind |-> "mount", path |-> <<"menu", "css">>, name |-> "menu_css",
        directory |-> frontend_path \o <<"menu", "css">>, html |-> FALSE],
       [kind |-> "mount", path |-> <<"menu", "js">>, name |-> "menu_js",
        directory |-> frontend_path \o <<"menu", "js">>, html |-> FALSE] >>

\* the mounts with the css mount given the js directory
MountDeclsCssFromJs ==
    << [kind |-> "mount", path |-> <<"game">>, name |-> "game",
        directory |-> frontend_path \o <<"game">>, html |-> TRUE],
       [kind |-> "mount", path |-> <<"menu", "assets">>, name |-> "menu_assets",
        directory |-> frontend_path \o <<"menu", "assets">>, html |-> FALSE],
       [kind |-> "mount", path |-> <<"menu", "css">>, name |-> "menu_css",
        directory |-> frontend_path \o <<"menu", "js">>, html |-> FALSE],
       [kind |-> "mount", path |-> <<"menu", "js">>, name |-> "menu_js",
        directory |-> frontend_path \o <<"menu", "js">>, html |-> FALSE],
       [kind |-> "mount", path |-> <<"menu">>, name |-> "menu",
        directory |-> frontend_path \o <<"menu">>, html |-> TRUE] >>

\* the mounts with the menu mount serving the frontend directory itself
MountDeclsMenuFromFrontend ==
    << [kind |-> "mount", path |-> <<"game">>, name |-> "game",
        directory |-> frontend_path \o <<"game">>, html |-> TRUE],
       [kind |-> "mount", path |-> <<"menu", "assets">>, name |-> "menu_assets",
        directory |-> frontend_path \o <<"menu", "assets">>, html |-> FALSE],
       [kind |-> "mount", path |-> <<"menu", "css">>, name |-> "menu_css",
        directory |-> frontend_path \o <<"menu", "css">>, html |-> FALSE],
       [kind |-> "mount", path |-> <<"menu", "js">>, name |-> "menu_js",
        directory |-> frontend_path \o <<"menu", "js">>, html |-> FALSE],
       [kind |-> "mount", path |-> <<"menu">>, name |-> "menu",
        directory |-> frontend_path, html |-> TRUE] >>

\* the mounts with the menu mounted at "/" instead of "/menu"
MountDeclsMenuAtRoot ==
    << [kind |-> "mount", path |-> <<"game">>, name |-> "game",
        directory |-> frontend_path \o <<"game">>, html |-> TRUE],
       [kind |-> "mount", path |-> <<"menu", "assets">>, name |-> "menu_assets",
        directory |-> frontend_path \o <<"menu", "assets">>, html |-> FALSE],
       [kind |-> "mount", path |-> <<"menu", "css">>, name |-> "menu_css",
        directory |-> frontend_path \o <<"menu", "css">>, html |-> FALSE],
       [kind |-> "mount", path |-> <<"menu", "js">>, name |-> "menu_js",
        directory |-> frontend_path \o <<"menu", "js">>, html |-> FALSE],
       [kind |-> "mount", path |-> <<>>, name |-> "menu",
        directory |-> frontend_path \o <<"menu">>, html |-> TRUE] >>

\* app.mount(path, StaticFiles(directory=..., html=...), name=...)
MountDecls ==
    << [kind |-> "mount", path |-> <<"game">>, name |-> "game",
        directory |-> frontend_path \o <<"game">>, html |-> TRUE],
       [kind |-> "mount", path |-> <<"menu", "assets">>, name |-> "menu_assets",
        directory |-> frontend_path \o <<"menu", "assets">>, html |-> FALSE],
       [kind |-> "mount", path |-> <<"menu", "css">>, name |-> "menu_css",
        directory |-> frontend_path \o <<"menu", "css">>, html |-> FALSE],
       [kind |-> "mount", path |-> <<"menu", "js">>, name |-> "menu_js",
        directory |-> frontend_path \o <<"menu", "js">>, html |-> FALSE],
       [kind |-> "mount", path |-> <<"menu">>, name |-> "menu",
        directory |-> frontend_path \o <<"menu">>, html |-> TRUE] >>

\* @app.get(path) async def name()
RouteDecls ==
    << [kind |-> "route", path |-> <<"">>, name |-> "root",
        directory |-> <<>>, html |-> FALSE],
       [kind |-> "route", path |-> <<"api">>, name |-> "api_root",
        directory |-> <<>>, html |-> FALSE],
       [kind |-> "route", path |-> <<"api", "health">>, name |-> "health_check",
        directory |-> <<>>, html |-> FALSE] >>

Declared == MountDecls \o RouteDecls

-----------------------------------------------------------------------------
(* Starlette's router *)

\* Mount: the path regex is ^<prefix>/(?P<path>.*)$, so the prefix must be
\* followed by a slash; an @app.get route matches its path exactly.
Matches(r, path) ==
    IF r.kind = "mount"
    THEN Len(path) > Len(r.path) /\ IsPrefix(r.path, path)
    ELSE path = r.path

\* what is left of the path after the mount's prefix
Residual(r, path) == SubSeq(path, Len(r.path) + 1, Len(path))

\* Router.app: the first route of the table that matches, 0 when none does
FirstMatch(table, path) ==
    IF \E i \in 1..Len(table) : Matches(table[i], path)
    THEN CHOOSE i \in 1..Len(table) :
            /\ Matches(table[i], path)
            /\ \A j \in 1..(i - 1) : ~Matches(table[j], path)
    ELSE 0

\* str.rstrip("/") on the path
RECURSIVE RStripSlash(_)
RStripSlash(path) ==
    IF path # <<>> /\ Last(path) = "" THEN RStripSlash(Parent(path)) ELSE path

\* redirect_slashes: the path with its trailing slash toggled
SlashToggled(path) ==
    IF Last(path) = "" THEN RStripSlash(path) ELSE Append(path, "")

-----------------------------------------------------------------------------
(* StaticFiles *)

\* os.path.normpath of a relative path; <<>> stands for "."
RECURSIVE NormFrom(_, _)
NormFrom(acc, segs) ==
    IF segs = <<>> THEN acc
    ELSE LET s == Head(segs)
             next == IF s = "" \/ s = "." THEN acc
                     ELSE IF s = ".." /\ acc # <<>> /\ Last(acc) # ".."
                          THEN Parent(acc)
                          ELSE Append(acc, s)
         IN  NormFrom(next, Tail(segs))

\* StaticFiles.get_path
Normpath(segs) == NormFrom(<<>>, segs)

\* os.path.realpath(os.path.join(directory, path)) without symbolic links
RECURSIVE AbsFrom(_, _)
AbsFrom(acc, segs) ==
    IF segs = <<>> THEN acc
    ELSE LET s == Head(segs)
             next == IF s = "" \/ s = "." THEN acc
                     ELSE IF s = ".." THEN (IF acc = <<>> THEN acc ELSE Parent(acc))
                     ELSE Append(acc, s)
         IN  AbsFrom(next, Tail(segs))

Realpath(directory, path) == AbsFrom(directory, path)

\* lookup_path without the check that the file lies under the directory
LookupPathUnchecked(f, directory, path) ==
    [full_path |-> Realpath(directory, path),
     stat |-> Stat(f, Realpath(directory, path))]

\* StaticFiles.lookup_path: the file is looked up only under the directory
LookupPath(f, directory, path) ==
    LET full_path == Realpath(directory, path)
    IN  IF ~IsPrefix(directory, full_path)
        THEN [full_path |-> <<>>, stat |-> "absent"]
        ELSE [full_path |-> full_path, stat |-> Stat(f, full_path)]

-----------------------------------------------------------------------------
(* Responses *)

NoHeader == "(none)"

Response(status, kind, ref, location, route) ==
    [status |-> status, body |-> [kind |-> kind, ref |-> ref],
     location |-> location, route |-> route,
     allow_origin |-> NoHeader, allow_credentials |-> NoHeader]

FileResponse(status, full_path, route) ==
    Response(status, "file", full_path, <<>>, route)

\* RedirectResponse(url): status_code defaults to 307
RedirectResponse(url, route) == Response(307, "empty", <<>>, url, route)

JSONResponse(content, route) == Response(200, "json", content, <<>>, route)

\* HTTPException(404) as rendered by the exception middleware
NotFound(route) == Response(404, "text", <<"Not Found">>, <<>>, route)

\* get_response serving a directory's index whether or not the path ends
\* with a slash
StaticResponseNoSlashRedirect(f, m, path) ==
    LET rel   == Normpath(Residual(m, path))
        found == LookupPath(f, m.directory, rel)
        index == LookupPath(f, m.directory, rel \o <<"index.html">>)
        e404  == LookupPath(f, m.directory, <<"404.html">>)
    IN  IF found.stat = "file"
        THEN FileResponse(200, found.full_path, m.name)
        ELSE IF found.stat = "dir" /\ m.html /\ index.stat = "file"
        THEN FileResponse(200, index.full_path, m.name)
        ELSE IF m.html /\ e404.stat = "file"
        THEN FileResponse(404, e404.full_path, m.name)
        ELSE NotFound(m.name)

\* StaticFiles.get_response for mount m and the request's full path
StaticResponse(f, m, path) ==
    LET rel   == Normpath(Residual(m, path))
        found == LookupPath(f, m.directory, rel)
        index == LookupPath(f, m.directory, rel \o <<"index.html">>)
        e404  == LookupPath(f, m.directory, <<"404.html">>)
    IN  IF found.stat = "file"
        THEN FileResponse(200, found.full_path, m.name)
        ELSE IF found.stat = "dir" /\ m.html /\ index.stat = "file"
        THEN IF Last(path) # ""
             THEN RedirectResponse(Append(path, ""), m.name)
             ELSE FileResponse(200, index.full_path, m.name)
        ELSE IF m.html /\ e404.stat = "file"
        THEN FileResponse(404, e404.full_path, m.name)
        ELSE NotFound(m.name)

\* Router.app when no route matches: redirect_slashes, then 404
DefaultResponse(table, path) ==
    IF path # <<"">> /\ FirstMatch(table, SlashToggled(path)) # 0
    THEN RedirectResponse(SlashToggled(path), "router")
    ELSE NotFound("router")

\* the middleware answering "*" to requests with cookies too
CorsStarAlways(r, response) ==
    IF r.origin = NoHeader THEN response
    ELSE [response EXCEPT !.allow_origin = "*", !.allow_credentials = "true"]

\* CORSMiddleware(allow_origins=["*"], allow_credentials=True): a request
\* without Origin passes through untouched; otherwise the simple headers are
\* added, and a request with a Cookie gets its own origin instead of "*".
Cors(r, response) ==
    IF r.origin = NoHeader THEN response
    ELSE [response EXCEPT
            !.allow_origin = IF r.cookie THEN r.origin ELSE "*",
            !.allow_credentials = "true"]

-----------------------------------------------------------------------------
(* Requests *)

\* what a client may put after a route prefix
ResidualSegs ==
    {"", "..", "x", "sub", "menu", "index.html", "menu.html"}

Prefixes == {<<>>} \cup {Declared[i].path : i \in 1..Len(Declared)}

Paths ==
    {p \o r : p \in Prefixes, r \in SeqsUpTo(ResidualSegs, MaxResidual)} \ {<<>>}

Origins == {NoHeader, "https://play.example"}

Requests == [path : Paths, origin : Origins, cookie : BOOLEAN]

\* one request per handler, for the clients that run side by side
ConcPaths ==
    {<<"">>, <<"api">>, <<"api", "health">>, <<"game", "">>, <<"game", "sub">>,
     <<"menu", "menu.html">>, <<"menu", "assets", "x">>, <<"menu">>, <<"x">>}

ConcRequests == [path : ConcPaths, origin : {NoHeader}, cookie : {FALSE}]

NoRequest == [path |-> <<>>, origin |-> NoHeader, cookie |-> FALSE]

NoResponse == Response(0, "empty", <<>>, <<>>, "")

\* fs:     the filesystem, fixed while the process runs
\* app:    "loading" while main.py is imported, then "serving" or "failed"
\* routes: app.router.routes, in registration order
\* phase, req, resp: per client, the request in flight and its response
\* hops, first: per client, the redirects followed and the path first asked
TypeOK ==
    /\ fs \in Layouts
    /\ app \in {"loading", "serving", "failed"}
    /\ \E n \in 0..Len(Declared) : routes = SubSeq(Declared, 1, n)
    /\ phase \in [Clients -> {"idle", "received", "responded"}]
    /\ \A c \in Clients : req[c].origin \in Origins /\ req[c].cookie \in BOOLEAN
    /\ \A c \in Clients : resp[c].status \in {0, 200, 307, 404}
    /\ hops \in [Clients -> 0..MaxHops]
    /\ \A c \in Clients : phase[c] = "idle" => first[c] = <<>>

-----------------------------------------------------------------------------
(* Module load: lines 8 to 44 run once, top to bottom *)

Init ==
    /\ fs \in Layouts
    /\ app = "loading"
    /\ routes = <<>>
    /\ phase = [c \in Clients |-> "idle"]
    /\ req = [c \in Clients |-> NoRequest]
    /\ resp = [c \in Clients |-> NoResponse]
    /\ hops = [c \in Clients |-> 0]
    /\ first = [c \in Clients |-> <<>>]

\* app.mount with StaticFiles(check_dir=False): a missing directory goes
\* unnoticed
MountUnchecked ==
    /\ app = "loading"
    /\ Len(routes) < Len(MountDecls)
    /\ routes' = Append(routes, MountDecls[Len(routes) + 1])
    /\ UNCHANGED <<fs, app, phase, req, resp, hops, first>>

\* app.mount(...): StaticFiles(directory=...) raises RuntimeError when the
\* directory does not exist, which aborts the import of the module
Mount ==
    /\ app = "loading"
    /\ Len(routes) < Len(MountDecls)
    /\ LET m == MountDecls[Len(routes) + 1]
       IN  IF Stat(fs, m.directory) = "dir"
           THEN routes' = Append(routes, m) /\ app' = app
           ELSE routes' = routes /\ app' = "failed"
    /\ UNCHANGED <<fs, phase, req, resp, hops, first>>

\* @app.get(...): the decorator appends the route; after the last one the
\* module is loaded and the server starts to serve
AddApiRoute ==
    /\ app = "loading"
    /\ Len(routes) >= Len(MountDecls)
    /\ Len(routes) < Len(Declared)
    /\ routes' = Append(routes, Declared[Len(routes) + 1])
    /\ app' = IF Len(routes') = Len(Declared) THEN "serving" ELSE app
    /\ UNCHANGED <<fs, phase, req, resp, hops, first>>

-----------------------------------------------------------------------------
(* Serving *)

\* client c sends one of the requests of `from'
Receive(c, from) ==
    /\ app = "serving"
    /\ phase[c] = "idle"
    /\ \E r \in from :
          /\ req' = [req EXCEPT ![c] = r]
          /\ first' = [first EXCEPT ![c] = r.path]
    /\ phase' = [phase EXCEPT ![c] = "received"]
    /\ hops' = [hops EXCEPT ![c] = 0]
    /\ UNCHANGED <<fs, app, routes, resp>>

\* the route the router hands the request to: its index in the table, or 0
Dispatch(c) == FirstMatch(routes, req[c].path)

DispatchedTo(c, name) ==
    /\ phase[c] = "received"
    /\ Dispatch(c) # 0
    /\ routes[Dispatch(c)].name = name

\* the response leaves through the CORS middleware
Respond(c, response) ==
    /\ resp' = [resp EXCEPT ![c] = Cors(req[c], response)]
    /\ phase' = [phase EXCEPT ![c] = "responded"]
    /\ UNCHANGED <<fs, app, routes, req, hops, first>>

\* the redirect pointing at the menu directory instead of the menu page
RootResponseToMenuDir == RedirectResponse(<<"menu", "">>, "root")

RootResponse == RedirectResponse(<<"menu", "menu.html">>, "root")

ApiRootResponse ==
    JSONResponse(<<"message", "Welcome to Throne Wars RTS API">>, "api_root")

HealthResponse == JSONResponse(<<"status", "healthy">>, "health_check")

root(c) == DispatchedTo(c, "root") /\ Respond(c, RootResponse)

\* a handler that registers a route while it answers: the game directory
\* mounted at "/" ahead of every other route
api_root_mounting(c) ==
    /\ DispatchedTo(c, "api_root")
    /\ resp' = [resp EXCEPT ![c] = Cors(req[c], ApiRootResponse)]
    /\ phase' = [phase EXCEPT ![c] = "responded"]
    /\ routes' = <<[MountDecls[1] EXCEPT !.path = <<>>]>> \o routes
    /\ UNCHANGED <<fs, app, req, hops, first>>

api_root(c) == DispatchedTo(c, "api_root") /\ Respond(c, ApiRootResponse)

health_check(c) == DispatchedTo(c, "health_check") /\ Respond(c, HealthResponse)

\* a mount hands the request to its StaticFiles application
StaticFiles(c) ==
    /\ phase[c] = "received"
    /\ Dispatch(c) # 0
    /\ routes[Dispatch(c)].kind = "mount"
    /\ Respond(c, StaticResponse(fs, routes[Dispatch(c)], req[c].path))

\* no route matches
RouterDefault(c) ==
    /\ phase[c] = "received"
    /\ Dispatch(c) = 0
    /\ Respond(c, DefaultResponse(routes, req[c].path))

\* the client follows a redirect, with the same headers
Follow(c) ==
    /\ phase[c] = "responded"
    /\ resp[c].status = 307
    /\ hops[c] < MaxHops
    /\ req' = [req EXCEPT ![c].path = resp[c].location]
    /\ resp' = [resp EXCEPT ![c] = NoResponse]
    /\ phase' = [phase EXCEPT ![c] = "received"]
    /\ hops' = [hops EXCEPT ![c] = hops[c] + 1]
    /\ UNCHANGED <<fs, app, routes, first>>

\* the client is done with the response
Finish(c) ==
    /\ phase[c] = "responded"
    /\ phase' = [phase EXCEPT ![c] = "idle"]
    /\ req' = [req EXCEPT ![c] = NoRequest]
    /\ resp' = [resp EXCEPT ![c] = NoResponse]
    /\ hops' = [hops EXCEPT ![c] = 0]
    /\ first' = [first EXCEPT ![c] = <<>>]
    /\ UNCHANGED <<fs, app, routes>>

Serve(c) ==
    \/ root(c)
    \/ api_root(c)
    \/ health_check(c)
    \/ StaticFiles(c)
    \/ RouterDefault(c)
    \/ Follow(c)
    \/ Finish(c)

\* one client, any request
Next ==
    \/ Mount
    \/ AddApiRoute
    \/ Receive(1, Requests)
    \/ Serve(1)

Spec == Init /\ [][Next]_vars

\* several clients side by side, one request per handler
NextConc ==
    \/ Mount
    \/ AddApiRoute
    \/ \E c \in Clients : Receive(c, ConcRequests)
    \/ \E c \in Clients : Serve(c)

SpecConc == Init /\ [][NextConc]_vars

-----------------------------------------------------------------------------
(* Vocabulary of the properties *)

Mounts == {MountDecls[i] : i \in 1..Len(MountDecls)}

Responded(c) == phase[c] = "responded"

\* the mount whose StaticFiles application produced the response of c
HandledBy(c, m) == Responded(c) /\ resp[c].route = m.name

\* where the residual path of the request leads, resolved against the
\* mount's directory segment by segment
Target(m, path) == Realpath(m.directory, Residual(m, path))

Escapes(m, path) == ~IsPrefix(m.directory, Target(m, path))

Is2xx(status) == status >= 200 /\ status < 300

ServesFile(c, status, full_path) ==
    /\ resp[c].status = status
    /\ resp[c].body = [kind |-> "file", ref |-> full_path]

\* a relative path as a directory listing gives it: plain names only
PlainRelative(rel) ==
    /\ rel # <<>>
    /\ \A i \in 1..Len(rel) : rel[i] \notin {"", ".", ".."}

MenuPage == frontend_path \o <<"menu", "menu.html">>

-----------------------------------------------------------------------------
(* C1 *)

\* C1: a request handled by a static mount whose residual path resolves
\* outside the mount's directory gets a non-2xx status, and its body is never
\* a file from outside that directory.
C1_TraversalRejected ==
    \A c \in Clients : \A m \in Mounts :
        (HandledBy(c, m) /\ Escapes(m, req[c].path)) =>
            /\ ~Is2xx(resp[c].status)
            /\ ~(resp[c].body.kind = "file" /\ ~IsPrefix(m.directory, resp[c].body.ref))

\* a traversal out of /game that points at an existing file was answered 404
C1_Witness ==
    \E c \in Clients : \E m \in Mounts :
        /\ HandledBy(c, m)
        /\ m.name = "game"
        /\ Escapes(m, req[c].path)
        /\ Stat(fs, Target(m, req[c].path)) = "file"
        /\ resp[c].status = 404

-----------------------------------------------------------------------------
(* C2 *)

\* the mounts whose prefix matches the path, and the most specific of them
MatchingMounts(path) == {m \in Mounts : Matches(m, path)}

LongestMount(path) ==
    CHOOSE m \in MatchingMounts(path) :
        \A o \in MatchingMounts(path) : Len(o.path) <= Len(m.path)

\* C2: whenever some mount prefix matches the request path, the route found
\* by scanning the table in registration order is the mount with the longest
\* matching prefix, and a file it serves lies in that mount's directory.
C2_FirstMatchIsLongest ==
    \A c \in Clients :
        (Responded(c) /\ MatchingMounts(req[c].path) # {}) =>
            /\ resp[c].route = LongestMount(req[c].path).name
            /\ resp[c].body.kind = "file" =>
                 IsPrefix(LongestMount(req[c].path).directory, resp[c].body.ref)

\* GET /menu/assets/x was served by the /menu/assets mount from its directory
C2_Witness ==
    \E c \in Clients :
        /\ Responded(c)
        /\ req[c].path = <<"menu", "assets", "x">>
        /\ resp[c].route = "menu_assets"
        /\ ServesFile(c, 200, frontend_path \o <<"menu", "assets", "x">>)

-----------------------------------------------------------------------------
(* C3 *)

\* C3: for every mount and every regular file under its directory, a GET of
\* the mount's prefix followed by the file's relative path answers 200 with
\* that file, also when a narrower mount handles the request.
C3_ExistingFileServed ==
    \A c \in Clients : \A m \in Mounts :
        LET rel == Residual(m, req[c].path)
        IN  ( /\ Responded(c)
              /\ IsPrefix(m.path, req[c].path)
              /\ PlainRelative(rel)
              /\ Stat(fs, m.directory \o rel) = "file" ) =>
                ServesFile(c, 200, m.directory \o rel)

\* a file of frontend/menu/css asked for through the /menu prefix, handled
\* by the narrower /menu/css mount
C3_Witness ==
    \E c \in Clients :
        /\ Responded(c)
        /\ req[c].path = <<"menu", "css", "index.html">>
        /\ resp[c].route = "menu_css"
        /\ ServesFile(c, 200, frontend_path \o <<"menu", "css", "index.html">>)

-----------------------------------------------------------------------------
(* C4 *)

\* what the residual path names inside the mount's directory
Named(m, path) ==
    IF Escapes(m, path) THEN "absent" ELSE Stat(fs, Target(m, path))

IndexOf(m, path) == Target(m, path) \o <<"index.html">>

HasIndex(m, path) == Stat(fs, IndexOf(m, path)) = "file"

\* C4 as stated, for directories that do hold an index file: the response is
\* the index file exactly when the mount has html=True, and it is 404 on the
\* other mounts and for a residual path that names nothing.
C4_AsStated ==
    \A c \in Clients : \A m \in Mounts :
        HandledBy(c, m) =>
            /\ (Named(m, req[c].path) = "dir" /\ HasIndex(m, req[c].path)) =>
                 (ServesFile(c, 200, IndexOf(m, req[c].path)) <=> m.html)
            /\ (Named(m, req[c].path) = "dir" /\ ~m.html) => resp[c].status = 404
            /\ Named(m, req[c].path) = "absent" => resp[c].status = 404

\* C4 (amended): when the residual path is empty or names a directory, the
\* response is 200 with the directory's index.html exactly when the mount has
\* html=True, the directory holds a regular index.html and the request path
\* ends with a slash; with html=True and an index.html but no trailing slash
\* it is a 307 redirect to the path with a slash appended; in every other
\* case, and when the residual path names nothing, the status is 404.
C4_IndexServing ==
    \A c \in Clients : \A m \in Mounts :
        HandledBy(c, m) =>
            LET path    == req[c].path
                indexed == m.html /\ HasIndex(m, path)
            IN  /\ Named(m, path) = "dir" =>
                     /\ ServesFile(c, 200, IndexOf(m, path))
                            <=> (indexed /\ Last(path) = "")
                     /\ (indexed /\ Last(path) # "") =>
                            /\ resp[c].status = 307
                            /\ resp[c].location = Append(path, "")
                     /\ ~indexed => resp[c].status = 404
                /\ Named(m, path) = "absent" => resp[c].status = 404

\* GET /game/sub, a directory with an index file on an html mount, was
\* answered with a redirect to /game/sub/
C4_Witness ==
    \E c \in Clients :
        /\ Responded(c)
        /\ req[c].path = <<"game", "sub">>
        /\ resp[c].route = "game"
        /\ resp[c].status = 307
        /\ resp[c].location = <<"game", "sub", "">>

-----------------------------------------------------------------------------
(* C5 *)

IsRootRedirect(c, status) ==
    /\ resp[c].status = status
    /\ resp[c].location = <<"menu", "menu.html">>
    /\ resp[c].route = "root"

\* C5 as stated: GET / answers 302 with target /menu/menu.html
C5_AsStated ==
    \A c \in Clients :
        (Responded(c) /\ req[c].path = <<"">>) => IsRootRedirect(c, 302)

\* C5 (amended): GET / answers with a 307 redirect whose target is
\* /menu/menu.html, whatever was requested before.
C5_RootRedirects ==
    \A c \in Clients :
        (Responded(c) /\ req[c].path = <<"">>) => IsRootRedirect(c, 307)

\* GET / was answered
C5_Witness ==
    \E c \in Clients :
        Responded(c) /\ req[c].path = <<"">> /\ resp[c].location # <<>>

-----------------------------------------------------------------------------
(* C6 *)

\* C6: when frontend/menu/menu.html is a regular file, the request a client
\* sends after the redirect of GET / is handled by the /menu mount and
\* answered 200 with menu.html, so the chain ends after one hop.
C6_RedirectResolves ==
    \A c \in Clients :
        (first[c] = <<"">> /\ Stat(fs, MenuPage) = "file") =>
            /\ hops[c] <= 1
            /\ (Responded(c) /\ hops[c] = 1) =>
                 /\ resp[c].route = "menu"
                 /\ ServesFile(c, 200, MenuPage)

\* the redirect of GET / was followed and answered
C6_Witness ==
    \E c \in Clients :
        /\ first[c] = <<"">>
        /\ Stat(fs, MenuPage) = "file"
        /\ Responded(c)
        /\ hops[c] = 1
        /\ resp[c].status = 200

-----------------------------------------------------------------------------
(* C7 *)

\* C7: GET /api/health answers 200 with {"status": "healthy"} in every layout
\* of the filesystem and after any earlier requests; no mount takes it.
C7_HealthAlwaysHealthy ==
    \A c \in Clients :
        (Responded(c) /\ req[c].path = <<"api", "health">>) =>
            /\ resp[c].status = 200
            /\ resp[c].body = [kind |-> "json", ref |-> <<"status", "healthy">>]
            /\ resp[c].route = "health_check"

\* GET /api/health was answered where the menu page and the game index are
\* missing
C7_Witness ==
    \E c \in Clients :
        /\ Responded(c)
        /\ req[c].path = <<"api", "health">>
        /\ Stat(fs, MenuPage) = "absent"
        /\ Stat(fs, frontend_path \o <<"game", "index.html">>) = "absent"

-----------------------------------------------------------------------------
(* C8 *)

\* C8 as stated: every response carries Access-Control-Allow-Origin: *
C8_AsStated ==
    \A c \in Clients : Responded(c) => resp[c].allow_origin = "*"

\* C8 (amended): a response carries Access-Control-Allow-Origin only when the
\* request has an Origin header; its value is * when the request has no
\* Cookie header and the request's own origin when it has one.
C8_AllowOrigin ==
    \A c \in Clients :
        Responded(c) =>
            resp[c].allow_origin =
                IF req[c].origin = NoHeader THEN NoHeader
                ELSE IF req[c].cookie THEN req[c].origin
                ELSE "*"

\* a 404 for a cross-origin request without cookies carried the header
C8_Witness ==
    \E c \in Clients :
        /\ Responded(c)
        /\ req[c].origin # NoHeader
        /\ ~req[c].cookie
        /\ resp[c].status = 404
        /\ resp[c].allow_origin = "*"

-----------------------------------------------------------------------------
(* C9 *)

\* the response to request r of an application that holds the declared
\* routes and has served nothing else
Alone(f, r) ==
    LET i == FirstMatch(Declared, r.path)
    IN  Cors(r,
            IF i = 0 THEN DefaultResponse(Declared, r.path)
            ELSE IF Declared[i].kind = "mount"
                 THEN StaticResponse(f, Declared[i], r.path)
            ELSE IF Declared[i].name = "root" THEN RootResponse
            ELSE IF Declared[i].name = "api_root" THEN ApiRootResponse
            ELSE HealthResponse)

\* C9: with clients running side by side in any order, every response is the
\* one its request gets when handled alone on the same filesystem.
C9_ResponseOfRequestAlone ==
    \A c \in Clients : Responded(c) => resp[c] = Alone(fs, req[c])

\* two clients hold responses at the same time, one of them from a mount
C9_Witness ==
    \E c, d \in Clients :
        /\ c # d
        /\ Responded(c)
        /\ Responded(d)
        /\ resp[c].route = "api_root"
        /\ resp[d].route = "menu"
        /\ resp[d].status = 200

-----------------------------------------------------------------------------
(* C10 *)

MountDirsExist == \A m \in Mounts : Stat(fs, m.directory) = "dir"

\* C10: when a mount directory is missing the application never serves and no
\* client ever gets a response; when it serves, the route table is the
\* declared one, whatever has been requested.
C10_StartupAllOrNothing ==
    /\ ~MountDirsExist =>
          /\ app # "serving"
          /\ \A c \in Clients : phase[c] = "idle" /\ resp[c] = NoResponse
    /\ app = "serving" => routes = Declared
    /\ (\E c \in Clients : phase[c] # "idle") => app = "serving"

\* the load failed after part of the table had been registered
C10_Witness == app = "failed" /\ Len(routes) >= 1 /\ ~MountDirsExist

====
